---------------------------- MODULE Spec2Model ----------------------------
(***************************************************************************)
(* A model of dogmatico/math-utils (src/index.js): HermitePolynomial, the  *)
(* Newton divided-difference interpolating polynomial with its evaluate,   *)
(* derivative and findRoot methods, and HermiteSpline, the piecewise       *)
(* spline that keeps one HermitePolynomial per pair of consecutive knots.  *)
(*                                                                         *)
(* Numbers.  A JavaScript number is modelled in exact arithmetic as a pair *)
(* <<n, d>>: a reduced fraction n/d when d > 0, and the three IEEE-754     *)
(* specials when d = 0: <<1, 0>> is Infinity, <<-1, 0>> is -Infinity and   *)
(* <<0, 0>> is NaN.  Rounding and negative zero are not modelled; no input *)
(* of the model is a negative zero, and none of the modelled code can then *)
(* produce one as a divisor.                                               *)
(***************************************************************************)
EXTENDS Integers, Sequences, FiniteSets, TLC

VARIABLES
    polynomial,                 \* a HermitePolynomial instance           
    polynomialCall,             \* the last method call on it, with its result
    _interpolPts,               \* HermiteSpline: the knots [x, f(x), f'(x), ...]
    _interpolationPolynomials,  \* HermiteSpline: one instance per segment
    splineCall                  \* the last HermiteSpline call, with its result

vars == <<polynomial, polynomialCall, _interpolPts, _interpolationPolynomials, splineCall>>

(***************************************************************************)
(* Bounds of the model.                                                    *)
(***************************************************************************)
\* the abscissas of samples and knots, and the arguments x, are 0..MaxX
MaxX == 2
\* a HermitePolynomial is constructed from 1..MaxLen samples
MaxLen == 3
\* findRoot is called on polynomials constructed from 1..MaxRootLen samples
MaxRootLen == 2
\* and with iterations in 1..MaxIterations
MaxIterations == 3
\* and while the numerator and denominator of its iterates are at most
MaxMagnitude == 100
\* a HermiteSpline has 2..MaxKnots knots: addPoint is not called when the
\* spline would grow past MaxKnots
MaxKnots == 3

(***************************************************************************)
(* Number arithmetic.                                                      *)
(***************************************************************************)
Abs(i) == IF i < 0 THEN -i ELSE i

Sign(i) == IF i < 0 THEN -1 ELSE IF i > 0 THEN 1 ELSE 0

RECURSIVE Gcd(_, _)
Gcd(a, b) == IF b = 0 THEN a ELSE Gcd(b, a % b)

\* the number n/d, reduced; n/0 is Infinity, -Infinity or NaN by the sign of n
Norm(n, d) ==
    IF d = 0 THEN <<Sign(n), 0>>
    ELSE LET s == IF d < 0 THEN -1 ELSE 1
             g == Gcd(Abs(n), Abs(d))
         IN  <<(s * n) \div g, (s * d) \div g>>

N(i) == <<i, 1>>

NaN == <<0, 0>>

Infinity == <<1, 0>>

IsNaN(a) == a = NaN

IsFinite(a) == a[2] > 0

IsInf(a) == a[2] = 0 /\ a[1] # 0

Neg(a) == <<-a[1], a[2]>>

Add(a, b) ==
    IF IsNaN(a) \/ IsNaN(b) THEN NaN
    ELSE IF IsInf(a) THEN (IF IsInf(b) /\ b # a THEN NaN ELSE a)
    ELSE IF IsInf(b) THEN b
    ELSE LET g == Gcd(a[2], b[2])
         IN  Norm(a[1] * (b[2] \div g) + b[1] * (a[2] \div g), (a[2] \div g) * b[2])

Sub(a, b) == Add(a, Neg(b))

Mul(a, b) ==
    IF IsNaN(a) \/ IsNaN(b) THEN NaN
    ELSE IF IsInf(a) \/ IsInf(b) THEN <<Sign(a[1]) * Sign(b[1]), 0>>
    ELSE LET g1 == Gcd(Abs(a[1]), b[2])
             g2 == Gcd(Abs(b[1]), a[2])
         IN  Norm((a[1] \div g1) * (b[1] \div g2), (a[2] \div g2) * (b[2] \div g1))

Div(a, b) ==
    IF IsNaN(a) \/ IsNaN(b) THEN NaN
    ELSE IF IsInf(b) THEN (IF IsInf(a) THEN NaN ELSE N(0))
    ELSE IF b[1] = 0 THEN <<Sign(a[1]), 0>>
    ELSE IF IsInf(a) THEN <<Sign(a[1]) * Sign(b[1]), 0>>
    ELSE Mul(a, Norm(b[2], b[1]))

\* n1/d1 < n2/d2 for fractions with positive denominators, by the continued
\* fraction expansion: no product is formed, so no operand is too large
RECURSIVE FracLess(_, _, _, _)
FracLess(n1, d1, n2, d2) ==
    LET q1 == n1 \div d1
        q2 == n2 \div d2
        r1 == n1 % d1
        r2 == n2 % d2
    IN  IF q1 # q2 THEN q1 < q2
        ELSE IF r2 = 0 THEN FALSE
        ELSE IF r1 = 0 THEN TRUE
        ELSE FracLess(d2, r2, d1, r1)

\* a < b; every comparison with NaN is false
Less(a, b) ==
    IF IsNaN(a) \/ IsNaN(b) THEN FALSE
    ELSE IF IsInf(a) \/ IsInf(b)
         THEN (IF IsInf(a) THEN a[1] ELSE 0) < (IF IsInf(b) THEN b[1] ELSE 0)
    ELSE FracLess(a[1], a[2], b[1], b[2])

\* a === b; NaN equals nothing
Eq(a, b) == ~IsNaN(a) /\ a = b

Leq(a, b) == Less(a, b) \/ Eq(a, b)

\* Math.abs
MathAbs(a) == <<Abs(a[1]), a[2]>>

\* parseFloat of a value that is a number already
parseFloat(v) == v

(***************************************************************************)
(* HermitePolynomial.  An instance is the record [isError, _coefficients]: *)
(* isError is TRUE for the Error object that `new HermitePolynomial(pts)'  *)
(* evaluates to when pts is empty (a constructor that returns an object    *)
(* yields that object), _coefficients is the sequence of <<x, c>> pairs    *)
(* otherwise, and _interpolPts is the argument of the constructor.         *)
(***************************************************************************)
RECURSIVE factorialLoop(_, _, _)
factorialLoop(res, i, n) == IF i <= n THEN factorialLoop(res * i, i + 1, n) ELSE res

factorial(n) == IF n <= 1 THEN 1 ELSE factorialLoop(1, 1, n)

\* Array.prototype.sort with the comparator a[0] - b[0]: a stable insertion
RECURSIVE InsertByX(_, _)
InsertByX(sorted, p) ==
    IF sorted = <<>> THEN <<p>>
    ELSE IF Less(p[1], sorted[Len(sorted)][1])
         THEN Append(InsertByX(SubSeq(sorted, 1, Len(sorted) - 1), p), sorted[Len(sorted)])
         ELSE Append(sorted, p)

RECURSIVE SortByX(_)
SortByX(s) ==
    IF s = <<>> THEN <<>>
    ELSE InsertByX(SortByX(SubSeq(s, 1, Len(s) - 1)), s[Len(s)])

\* DividedDifference with the difference of adjacent abscissas as divisor
DividedDifferenceAdjacent(c, i, j) ==
    IF Eq(c[j + 1][1], c[j - i + 1][1])
    THEN [c EXCEPT ![j + 1][2] = Div(c[j + 1][2], N(factorial(1 + j - i)))]
    ELSE LET dx == Sub(c[j + 1][1], c[j][1])
         IN  [c EXCEPT ![j + 1][2] = Div(Sub(c[j + 1][2], c[j][2]), dx)]

\* one step of the inner loop, at the 0-based indices i and j of the source
DividedDifference(c, i, j) ==
    IF Eq(c[j + 1][1], c[j - i + 1][1])
    THEN [c EXCEPT ![j + 1][2] = Div(c[j + 1][2], N(factorial(1 + j - i)))]
    ELSE LET dx == Sub(c[j + 1][1], c[j - i + 1][1])
         IN  [c EXCEPT ![j + 1][2] = Div(Sub(c[j + 1][2], c[j][2]), dx)]

RECURSIVE InnerLoop(_, _, _)
InnerLoop(c, i, j) ==
    IF j >= i THEN InnerLoop(DividedDifference(c, i, j), i, j - 1) ELSE c

RECURSIVE OuterLoop(_, _)
OuterLoop(c, i) ==
    IF i < Len(c) THEN OuterLoop(InnerLoop(c, i, Len(c) - 1), i + 1) ELSE c

ErrorObject == [isError |-> TRUE, _coefficients |-> <<>>, _interpolPts |-> <<>>]

HermitePolynomial(interpolationPoints) ==
    IF Len(interpolationPoints) < 1 THEN ErrorObject
    ELSE LET mapped == [k \in 1..Len(interpolationPoints) |->
                           <<parseFloat(interpolationPoints[k][1]),
                             parseFloat(interpolationPoints[k][2])>>]
         IN  [isError |-> FALSE,
              _coefficients |-> OuterLoop(SortByX(mapped), 1),
              _interpolPts |-> interpolationPoints]

RECURSIVE evaluateLoop(_, _, _, _)
evaluateLoop(c, x, res, i) ==
    IF i >= 0 THEN evaluateLoop(c, x, Add(Mul(res, Sub(x, c[i + 1][1])), c[i + 1][2]), i - 1)
    ELSE res

evaluate(c, x) == evaluateLoop(c, x, c[Len(c)][2], Len(c) - 2)

RECURSIVE derivativeLoop(_, _, _, _, _)
derivativeLoop(c, x, Pn, dPn, i) ==
    IF i >= 0
    THEN derivativeLoop(c, x,
                        Add(Mul(Pn, Sub(x, c[i + 1][1])), c[i + 1][2]),
                        Add(Mul(dPn, Sub(x, c[i + 1][1])), Pn),
                        i - 1)
    ELSE <<Pn, dPn>>

derivative(c, x) == derivativeLoop(c, x, c[Len(c)][2], N(0), Len(c) - 2)

\* tolerance || 1e-6
DefaultTolerance == <<1, 1000000>>

\* the iterations of a call that gives no integer greater than 1
DefaultIterations == 10

\* tolerance = tolerance || 1e-6: 0 and NaN are the falsy numbers
toleranceOrDefault(tolerance) ==
    IF tolerance = N(0) \/ IsNaN(tolerance) THEN DefaultTolerance ELSE tolerance

\* iterations = (Number.isInteger(iterations) && iterations > 1 ? iterations : 10)
iterationsOrDefault(iterations) ==
    IF iterations > 1 THEN iterations ELSE DefaultIterations

\* a number whose numerator and denominator the model can still iterate on
InModel(a) == ~IsFinite(a) \/ (Abs(a[1]) <= MaxMagnitude /\ a[2] <= MaxMagnitude)

\* the for loop of findRoot from the state (i, x1, diff); cut is TRUE when
\* an iterate leaves the numbers of the model before the loop ends
RECURSIVE findRootLoop(_, _, _, _, _, _)
findRootLoop(c, tolerance, iterations, i, x1, diff) ==
    IF i < iterations /\ Less(tolerance, diff)
    THEN IF ~InModel(x1) THEN [x1 |-> x1, i |-> i, cut |-> TRUE]
         ELSE LET x0 == x1
                  Px == derivative(c, x0)
                  next == Sub(x0, Div(Px[1], Px[2]))
              IN  findRootLoop(c, tolerance, iterations, i + 1, next,
                               MathAbs(Sub(next, x0)))
    ELSE [x1 |-> x1, i |-> i, cut |-> FALSE]

\* findRoot with the derivative, Px[1], as the residual of the first test
findRootOfDerivative(c, seed, tolerance, iterations) ==
    LET tol == toleranceOrDefault(tolerance)
        its == iterationsOrDefault(iterations)
        Px == derivative(c, seed)
    IN  IF Less(MathAbs(Px[2]), tol) THEN [ret |-> <<seed>>, i |-> 0, cut |-> FALSE]
        ELSE LET r == findRootLoop(c, tol, its, 0, seed, MathAbs(Px[1]))
             IN  [ret |-> IF r.i = its THEN <<>> ELSE <<r.x1>>, i |-> r.i, cut |-> r.cut]

\* findRoot(seed, tolerance, iterations): ret is null (<<>>) or <<number>>, and
\* i is the number of passes of the loop.  The argument iterations is an
\* integer, and a tolerance of 0 stands for every falsy argument.
findRoot(c, seed, tolerance, iterations) ==
    LET tol == toleranceOrDefault(tolerance)
        its == iterationsOrDefault(iterations)
        Px == derivative(c, seed)
    IN  IF Less(MathAbs(Px[1]), tol) THEN [ret |-> <<seed>>, i |-> 0, cut |-> FALSE]
        ELSE LET r == findRootLoop(c, tol, its, 0, seed, MathAbs(Px[1]))
             IN  [ret |-> IF r.i = its THEN <<>> ELSE <<r.x1>>, i |-> r.i, cut |-> r.cut]

\* the arguments of evaluate and derivative
QueryX == {N(x) : x \in 0..MaxX}

\* polynomialCall before any call
NoCall == [op |-> "none", x |-> N(0), tolerance |-> N(0), iterations |-> 0,
           ret |-> <<>>, i |-> 0]

(***************************************************************************)
(* HermiteSpline.  Indices are the 0-based indices of the source; the      *)
(* k-th element of a JavaScript array is element k + 1 of its sequence.    *)
(* null is the empty sequence and an index i is <<i>>.                     *)
(***************************************************************************)
_unrollArrayPoints(points) ==
    [k \in 1..Len(points) |->
        [m \in 1..(Len(points[k]) - 1) |-> <<points[k][1], points[k][m + 1]>>]]

\* the constructor: the instances of the segments of the knots interpolPts
HermiteSpline(interpolPts) ==
    LET normalizedPoints == _unrollArrayPoints(interpolPts)
    IN  [i \in 1..(Len(interpolPts) - 1) |->
            HermitePolynomial(normalizedPoints[i] \o normalizedPoints[i + 1])]

outOfBounds(pts, x) == Less(x, pts[1][1]) \/ Less(pts[Len(pts)][1], x)

Max(a, b) == IF a > b THEN a ELSE b

RECURSIVE segmentScan(_, _, _)
segmentScan(pts, x, index) ==
    IF index < Len(pts) /\ Less(pts[index + 1][1], x)
    THEN segmentScan(pts, x, index + 1)
    ELSE index

\* the scan with <= in place of <, stopped at the last knot
RECURSIVE segmentScanLeq(_, _, _)
segmentScanLeq(pts, x, index) ==
    IF index < Len(pts) - 1 /\ Leq(pts[index + 1][1], x)
    THEN segmentScanLeq(pts, x, index + 1)
    ELSE index

\* _getIndexOfSegment scanning past the knots whose x is <= the argument
_getIndexOfSegmentLeq(pts, x) ==
    IF outOfBounds(pts, x) THEN <<>>
    ELSE <<Max(0, segmentScanLeq(pts, x, 0) - 1)>>

_getIndexOfSegment(pts, x) ==
    IF outOfBounds(pts, x) THEN <<>>
    ELSE <<Max(0, segmentScan(pts, x, 0) - 1)>>

RECURSIVE pointScan(_, _, _)
pointScan(pts, x, index) ==
    IF Less(pts[index + 2][1], x) THEN pointScan(pts, x, index + 1) ELSE index

_getIndexOfPoint(pts, x) ==
    IF outOfBounds(pts, x) THEN <<>> ELSE <<pointScan(pts, x, 0)>>

\* the body of the forEach callback of _updateCoefficients for the element
\* start: `for (let j = 1, ln = pts[i].length; i < ln; i += 1)' tests and
\* advances i, the callback's parameter, and leaves j at 1.  It pushes
\* [pts[i][0], pts[i][1]] for i = start .. ln - 1.
updateArguments(pts, start) ==
    LET ln == Len(pts[start + 1])
    IN  [k \in 1..Max(0, ln - start) |-> <<pts[start + k][1], pts[start + k][2]>>]

\* whether that loop reads pts[i] for an i past the end of the knots, which
\* raises a TypeError
updateThrows(pts, start) == Len(pts[start + 1]) > Len(pts)

\* _updateCoefficients(index) on the knots pts and the instances polys
_updateCoefficients(pts, polys, index) ==
    IF updateThrows(pts, index) \/ updateThrows(pts, index + 1)
    THEN [_interpolPts |-> pts, _interpolationPolynomials |-> polys, ret |-> "TypeError"]
    ELSE [_interpolPts |-> pts,
          _interpolationPolynomials |->
              [polys EXCEPT ![index + 1] =
                  HermitePolynomial(updateArguments(pts, index)
                                    \o updateArguments(pts, index + 1))],
          ret |-> "undefined"]

\* Array.prototype.splice(at, 0, e)
Splice(s, at, e) == SubSeq(s, 1, at) \o <<e>> \o SubSeq(s, at + 1, Len(s))

\* addPoint, the branch of a point outside the range of the knots (lines
\* 179-201).  Above the range the argument this._interpolPts[ln - 1] reads
\* ln, which no scope of addPoint declares: a ReferenceError is raised
\* before anything is changed.
addPointOutside(pts, polys, point, allowOutsideBounds) ==
    IF ~allowOutsideBounds
    THEN [_interpolPts |-> pts, _interpolationPolynomials |-> polys, ret |-> "Error"]
    ELSE IF Less(point[1], pts[1][1])
    THEN LET unrolledPoints == _unrollArrayPoints(<<point, pts[1]>>)
             newPoly == HermitePolynomial(unrolledPoints[1] \o unrolledPoints[2])
         IN  [_interpolPts |-> Splice(pts, 0, point),
              _interpolationPolynomials |-> Splice(polys, 0, newPoly),
              ret |-> "undefined"]
    ELSE [_interpolPts |-> pts, _interpolationPolynomials |-> polys,
          ret |-> "ReferenceError"]

\* addPoint, the branch of a point inside the range (lines 202-216)
addPointInside(pts, polys, point) ==
    LET insertIndex == _getIndexOfPoint(pts, point[1])[1]
        pts1 == Splice(pts, insertIndex + 1, point)
        unrolledPoints == _unrollArrayPoints(<<pts1[insertIndex + 1], pts1[insertIndex + 2]>>)
        polys1 == Splice(polys, insertIndex,
                         HermitePolynomial(unrolledPoints[1] \o unrolledPoints[2]))
    IN  _updateCoefficients(pts1, polys1, insertIndex + 1)

\* addPoint that adds a point outside the range whether allowed or not
addPointAlwaysAllowed(pts, polys, point, allowOutsideBounds) ==
    IF Less(point[1], pts[1][1]) \/ Less(pts[Len(pts)][1], point[1])
    THEN addPointOutside(pts, polys, point, TRUE)
    ELSE addPointInside(pts, polys, point)

addPoint(pts, polys, point, allowOutsideBounds) ==
    IF Less(point[1], pts[1][1]) \/ Less(pts[Len(pts)][1], point[1])
    THEN addPointOutside(pts, polys, point, allowOutsideBounds)
    ELSE addPointInside(pts, polys, point)

\* HermiteSpline.prototype.evaluate: the index found, and null, the value, or
\* the TypeError of calling evaluate on an Error object
splineEvaluate(pts, polys, x) ==
    LET index == _getIndexOfSegment(pts, x)
    IN  IF index = <<>> THEN [index |-> index, ret |-> "null", value |-> <<>>]
        ELSE IF polys[index[1] + 1].isError
        THEN [index |-> index, ret |-> "TypeError", value |-> <<>>]
        ELSE [index |-> index, ret |-> "number",
              value |-> <<evaluate(polys[index[1] + 1]._coefficients, x)>>]

(***************************************************************************)
(* The spline specification: a HermiteSpline constructed from two or more  *)
(* knots in strictly ascending order of x, and calls of addPoint, evaluate *)
(* and deletePoint on it.                                                  *)
(***************************************************************************)
\* what a knot carries after its x: f(x) alone, or f(x) and f'(x)
KnotValues == {<<N(2)>>, <<N(1), N(0)>>}

Knots == {<<N(x)>> \o t : x \in 0..MaxX, t \in KnotValues}

StrictlyAscending(pts) ==
    \A k \in 1..(Len(pts) - 1) : Less(pts[k][1], pts[k + 1][1])

InitialKnots ==
    {pts \in UNION {[1..n -> Knots] : n \in 2..MaxKnots} : StrictlyAscending(pts)}

NoSplineCall == [op |-> "none", point |-> <<>>, allowOutsideBounds |-> FALSE,
                 ret |-> "undefined", index |-> <<>>, value |-> <<>>]

NoPolynomial ==
    /\ polynomial = ErrorObject
    /\ polynomialCall = NoCall

Init ==
    /\ _interpolPts \in InitialKnots
    /\ _interpolationPolynomials = HermiteSpline(_interpolPts)
    /\ splineCall = NoSplineCall
    /\ NoPolynomial

AddPoint(point, allowOutsideBounds) ==
    \E r \in {addPoint(_interpolPts, _interpolationPolynomials, point, allowOutsideBounds)} :
        /\ Len(r._interpolPts) <= MaxKnots
        /\ _interpolPts' = r._interpolPts
        /\ _interpolationPolynomials' = r._interpolationPolynomials
        /\ splineCall' = [NoSplineCall EXCEPT !.op = "addPoint", !.point = point,
                              !.allowOutsideBounds = allowOutsideBounds, !.ret = r.ret]
        /\ UNCHANGED <<polynomial, polynomialCall>>

Evaluate(x) ==
    \E r \in {splineEvaluate(_interpolPts, _interpolationPolynomials, x)} :
        /\ splineCall' = [NoSplineCall EXCEPT !.op = "evaluate", !.point = <<x>>,
                              !.ret = r.ret, !.index = r.index, !.value = r.value]
        /\ UNCHANGED <<_interpolPts, _interpolationPolynomials, polynomial, polynomialCall>>

\* deletePoint has an empty body
DeletePoint ==
    /\ splineCall' = [NoSplineCall EXCEPT !.op = "deletePoint"]
    /\ UNCHANGED <<_interpolPts, _interpolationPolynomials, polynomial, polynomialCall>>

Next ==
    \/ \E point \in Knots, allowOutsideBounds \in BOOLEAN :
           AddPoint(point, allowOutsideBounds)
    \/ \E x \in QueryX : Evaluate(x)
    \/ DeletePoint

Spec == Init /\ [][Next]_vars

(***************************************************************************)
(* Claims about the spline, checked under Spec.                            *)
(***************************************************************************)
\* the polynomial of the segment between the knots a and b
SegmentOf(a, b) ==
    HermitePolynomial(_unrollArrayPoints(<<a>>)[1] \o _unrollArrayPoints(<<b>>)[1])

\* the step is a call addPoint(point, allowOutsideBounds)
IsAddPoint == splineCall'.op = "addPoint"

Below(pts, point) == Less(point[1], pts[1][1])

Above(pts, point) == Less(pts[Len(pts)][1], point[1])

\* C1: addPoint of a point strictly outside the range of the knots, with
\* allowOutsideBounds falsy, returns an Error (it does not throw) and leaves
\* the knots and the segment polynomials as they were.
C1_RejectedUnchanged ==
    [][(/\ IsAddPoint
        /\ ~splineCall'.allowOutsideBounds
        /\ (Below(_interpolPts, splineCall'.point) \/ Above(_interpolPts, splineCall'.point)))
       => (/\ splineCall'.ret = "Error"
           /\ _interpolPts' = _interpolPts
           /\ _interpolationPolynomials' = _interpolationPolynomials)]_vars

\* C1 happens: addPoint was called without permission for a point above the
\* range of the knots.
C1_Witness ==
    /\ splineCall.op = "addPoint"
    /\ ~splineCall.allowOutsideBounds
    /\ Above(_interpolPts, splineCall.point)
    /\ splineCall.ret = "Error"

\* C2: addPoint(point, true) of a point strictly outside the range completes
\* without raising; below the range the point becomes the first knot and the
\* polynomial of (point, old first knot) the first segment polynomial, above
\* the range the point becomes the last knot and the polynomial of (old last
\* knot, point) the last segment polynomial; nothing else changes.
C2_AllowedOutsideGrows ==
    [][(IsAddPoint /\ splineCall'.allowOutsideBounds) =>
         LET point == splineCall'.point
             first == _interpolPts[1]
             last == _interpolPts[Len(_interpolPts)]
         IN  /\ Below(_interpolPts, point) =>
                   /\ splineCall'.ret = "undefined"
                   /\ _interpolPts' = <<point>> \o _interpolPts
                   /\ _interpolationPolynomials' =
                          <<SegmentOf(point, first)>> \o _interpolationPolynomials
             /\ Above(_interpolPts, point) =>
                   /\ splineCall'.ret = "undefined"
                   /\ _interpolPts' = _interpolPts \o <<point>>
                   /\ _interpolationPolynomials' =
                          _interpolationPolynomials \o <<SegmentOf(last, point)>>]_vars

\* C3: on a spline with strictly ascending knots, addPoint of a point with
\* first.x <= point.x <= last.x adds exactly one knot and exactly one segment
\* polynomial, and evaluate(point.x) then returns point[1].
C3_InsideAddedAndEvaluates ==
    [][(/\ IsAddPoint
        /\ StrictlyAscending(_interpolPts)
        /\ ~Below(_interpolPts, splineCall'.point)
        /\ ~Above(_interpolPts, splineCall'.point))
       => (/\ Len(_interpolPts') = Len(_interpolPts) + 1
           /\ Len(_interpolationPolynomials') = Len(_interpolationPolynomials) + 1
           /\ splineEvaluate(_interpolPts', _interpolationPolynomials',
                             splineCall'.point[1])
                  = [index |-> _getIndexOfSegment(_interpolPts', splineCall'.point[1]),
                     ret |-> "number",
                     value |-> <<splineCall'.point[2]>>])]_vars

\* C4: there are always exactly knots.length - 1 segment polynomials, and the
\* i-th is the polynomial built from the expanded samples of knots[i] followed
\* by those of knots[i+1].
C4_SegmentsFromKnots ==
    /\ Len(_interpolationPolynomials) = Len(_interpolPts) - 1
    /\ \A k \in 1..Len(_interpolationPolynomials) :
           _interpolationPolynomials[k] = SegmentOf(_interpolPts[k], _interpolPts[k + 1])

\* C5: the knots stay in strictly ascending order of x.
C5_KnotsStrictlyAscending == StrictlyAscending(_interpolPts)

SampleY == {0, 1}

Samples == {<<N(x), N(y)>> : x \in 0..MaxX, y \in SampleY}

SampleLists == UNION {[1..n -> Samples] : n \in 1..MaxLen}

NoSpline ==
    /\ _interpolPts = <<>>
    /\ _interpolationPolynomials = <<>>
    /\ splineCall = NoSplineCall

InitPoly ==
    /\ polynomial \in {HermitePolynomial(pts) : pts \in SampleLists}
    /\ polynomialCall = NoCall
    /\ NoSpline

PolyEvaluate(x) ==
    /\ polynomialCall' = [NoCall EXCEPT !.op = "evaluate", !.x = x,
                              !.ret = <<evaluate(polynomial._coefficients, x)>>]
    /\ UNCHANGED <<polynomial, _interpolPts, _interpolationPolynomials, splineCall>>

PolyDerivative(x) ==
    /\ polynomialCall' = [NoCall EXCEPT !.op = "derivative", !.x = x,
                              !.ret = derivative(polynomial._coefficients, x)]
    /\ UNCHANGED <<polynomial, _interpolPts, _interpolationPolynomials, splineCall>>

NextPoly ==
    \/ \E x \in QueryX : PolyEvaluate(x)
    \/ \E x \in QueryX : PolyDerivative(x)

SpecPoly == InitPoly /\ [][NextPoly]_vars

(***************************************************************************)
(* The root-finding specification: a HermitePolynomial constructed from    *)
(* any list of 1..MaxRootLen samples, and calls of findRoot on it.         *)
(***************************************************************************)
RootSampleLists == UNION {[1..n -> Samples] : n \in 1..MaxRootLen}

\* the seeds
Seeds == {N(0), N(2)}

\* the tolerance arguments: none (falsy) and 1
Tolerances == {N(0), N(1)}

InitRoot ==
    /\ polynomial \in {HermitePolynomial(pts) : pts \in RootSampleLists}
    /\ polynomialCall = NoCall
    /\ NoSpline

FindRoot(seed, tolerance, iterations) ==
    \E r \in {findRoot(polynomial._coefficients, seed, tolerance, iterations)} :
        /\ ~r.cut
        /\ polynomialCall' = [op |-> "findRoot", x |-> seed, tolerance |-> tolerance,
                              iterations |-> iterations, ret |-> r.ret, i |-> r.i]
        /\ UNCHANGED <<polynomial, _interpolPts, _interpolationPolynomials, splineCall>>

NextRoot ==
    \E seed \in Seeds, tolerance \in Tolerances, iterations \in 1..MaxIterations :
        FindRoot(seed, tolerance, iterations)

SpecRoot == InitRoot /\ [][NextRoot]_vars

(***************************************************************************)
(* Claims about the polynomial, checked under SpecPoly.                    *)
(***************************************************************************)
DistinctX(pts) == \A a, b \in 1..Len(pts) : a # b => pts[a][1] # pts[b][1]

\* how many samples before the k-th share its abscissa: the derivative order
\* the k-th sample encodes
Occurrence(pts, k) == Cardinality({a \in 1..(k - 1) : pts[a][1] = pts[k][1]})

\* C6: a polynomial constructed from samples with pairwise distinct x, given
\* in any order, evaluates to y_i at every x_i, and a polynomial constructed
\* from the single sample (x0, y0) evaluates to y0 at every x.
C6_InterpolationExact ==
    LET pts == polynomial._interpolPts
    IN  (polynomialCall.op = "evaluate" /\ DistinctX(pts)) =>
            /\ \A k \in 1..Len(pts) :
                   pts[k][1] = polynomialCall.x => polynomialCall.ret[1] = pts[k][2]
            /\ Len(pts) = 1 => polynomialCall.ret[1] = pts[1][2]

\* C6 happens: three samples with distinct x, not in ascending order, and
\* evaluate called at the abscissa of the last one.
C6_Witness ==
    LET pts == polynomial._interpolPts
    IN  /\ polynomialCall.op = "evaluate"
        /\ Len(pts) = 3
        /\ DistinctX(pts)
        /\ Less(pts[2][1], pts[1][1])
        /\ polynomialCall.x = pts[3][1]
        /\ pts[3][2] # pts[1][2]

\* C7: when an abscissa occurs several times in the samples, the k-th
\* occurrence carrying the k-th derivative there, derivative(x) returns at
\* every sample abscissa the encoded value and the encoded first derivative.
C7_HermiteExact ==
    LET pts == polynomial._interpolPts
    IN  polynomialCall.op = "derivative" =>
            \A k \in 1..Len(pts) :
                pts[k][1] = polynomialCall.x =>
                    /\ Occurrence(pts, k) = 0 => polynomialCall.ret[1] = pts[k][2]
                    /\ Occurrence(pts, k) = 1 => polynomialCall.ret[2] = pts[k][2]

(***************************************************************************)
(* Claims about findRoot, checked under SpecRoot.                          *)
(***************************************************************************)
\* one Newton step from x0: x0 - P(x0)/P'(x0)
NewtonStep(c, x0) ==
    LET Px == derivative(c, x0)
    IN  Sub(x0, Div(Px[1], Px[2]))

RECURSIVE Iterate(_, _, _)
Iterate(c, seed, k) == IF k = 0 THEN seed ELSE NewtonStep(c, Iterate(c, seed, k - 1))

\* the first step k in from..n whose length |x1 - x0| is <= tolerance, with
\* its x1, where x0 is the iterate before step from; k = 0 when there is none
RECURSIVE FirstConverged(_, _, _, _, _)
FirstConverged(c, tolerance, n, from, x0) ==
    IF from > n THEN [k |-> 0, x1 |-> x0]
    ELSE LET x1 == NewtonStep(c, x0)
         IN  IF Leq(MathAbs(Sub(x1, x0)), tolerance) THEN [k |-> from, x1 |-> x1]
             ELSE FirstConverged(c, tolerance, n, from + 1, x1)

\* C8: when the residual at the seed is not below tolerance and the caller
\* passes a positive integer iterations, findRoot performs at most iterations
\* Newton steps and returns null iff none of them has |x1 - x0| <= tolerance;
\* if step k <= iterations is the first that has, the final permitted step
\* included, it stops there and returns that step's x1.
C8_NullIffNoStepConverges ==
    LET c == polynomial._coefficients
        seed == polynomialCall.x
        tol == toleranceOrDefault(polynomialCall.tolerance)
    IN  (/\ polynomialCall.op = "findRoot"
         /\ polynomialCall.iterations >= 1
         /\ ~Less(MathAbs(evaluate(c, seed)), tol)) =>
            LET first == FirstConverged(c, tol, polynomialCall.iterations, 1, seed)
            IN  /\ polynomialCall.i <= polynomialCall.iterations
                /\ polynomialCall.ret = <<>> <=> first.k = 0
                /\ first.k # 0 =>
                       /\ polynomialCall.i = first.k
                       /\ polynomialCall.ret = <<first.x1>>

\* C9 as stated: findRoot returns the seed without iterating exactly when
\* |P'(seed)| < tolerance, P' being the residual it drives to zero.
C9_SeedReturnedIffDerivativeSmall ==
    LET c == polynomial._coefficients
        seed == polynomialCall.x
        tol == toleranceOrDefault(polynomialCall.tolerance)
    IN  polynomialCall.op = "findRoot" =>
            ((polynomialCall.i = 0 /\ polynomialCall.ret = <<seed>>)
                 <=> Less(MathAbs(derivative(c, seed)[2]), tol))

\* C9 amended: findRoot searches for a root of the polynomial itself; the
\* residual is P(x), the first output of derivative().  It returns the seed
\* without a Newton step exactly when |P(seed)| <= tolerance, a result reached
\* after i >= 1 steps is the i-th Newton iterate x0 - P(x0)/P'(x0) of the
\* seed, and when the last step has length zero that result is a root of P.
C9_SeedReturnedIffValueSmall ==
    LET c == polynomial._coefficients
        seed == polynomialCall.x
        tol == toleranceOrDefault(polynomialCall.tolerance)
        i == polynomialCall.i
        ret == polynomialCall.ret
    IN  polynomialCall.op = "findRoot" =>
            /\ (i = 0 /\ ret = <<seed>>) <=> Leq(MathAbs(evaluate(c, seed)), tol)
            /\ (i >= 1 /\ ret # <<>>) =>
                   /\ ret[1] = Iterate(c, seed, i)
                   /\ (IsFinite(ret[1]) /\ ret[1] = Iterate(c, seed, i - 1)) =>
                          evaluate(c, ret[1]) = N(0)

\* C9 happens: findRoot returned, after two steps, a root of P where the
\* derivative of P is not zero, from a seed where neither is below tolerance.
C9_Witness ==
    LET c == polynomial._coefficients
        seed == polynomialCall.x
        tol == toleranceOrDefault(polynomialCall.tolerance)
    IN  /\ polynomialCall.op = "findRoot"
        /\ polynomialCall.i = 2
        /\ polynomialCall.ret # <<>>
        /\ IsFinite(polynomialCall.ret[1])
        /\ evaluate(c, polynomialCall.ret[1]) = N(0)
        /\ derivative(c, polynomialCall.ret[1])[2] # N(0)
        /\ ~Less(MathAbs(derivative(c, seed)[2]), tol)
        /\ ~Less(MathAbs(evaluate(c, seed)), tol)

=============================================================================
